---------------------------- MODULE Spec2Model ----------------------------
(***************************************************************************)
(* Model of the classification profiler src/src/bin/cls.rs: the            *)
(* classification tree (ClassiNode / ClassiTree), its insert, lookup and   *)
(* leaf enumeration, the tree-vs-tree diff and the accuracy report.        *)
(*                                                                         *)
(* A ClassiNode is the record [val, subs]; subs is the sequence of child   *)
(* nodes in insertion order. The Rust field is Option<Vec<ClassiNode>>:    *)
(* None is modelled by <<>>, which is exact because the code only ever     *)
(* builds Some(v) with v non-empty (vec![t_node], then push).              *)
(***************************************************************************)
EXTENDS Integers, Sequences, FiniteSets, TLC

(***************************************************************************)
(* Bounds of the model.                                                    *)
(***************************************************************************)
\* SpecTree: number of ClassiTree::add_node calls made on the tree under test
MaxCalls == 3
\* SpecTree: longest classification path handed to ClassiTree::add_node
MaxPathLen == 3
\* Spec: number of add_node calls made on solution and answer together
MaxRows == 3
\* Spec, SpecSame: longest classification path of a row
MaxLevels == 2
\* SpecSame: number of rows inserted into both trees
MaxSame == 2

\* classification labels and field identities the inputs are drawn from
Labels == {"A", "B"}
Fields == {<<"db1", "t1", "f1">>, <<"db1", "t1", "f2">>}

RECURSIVE PathsOfLen(_)
PathsOfLen(n) ==
    IF n = 0 THEN {<<>>}
    ELSE {Append(p, l) : p \in PathsOfLen(n - 1), l \in Labels}

PathsUpTo(n) == UNION {PathsOfLen(k) : k \in 0..n}

(***************************************************************************)
(* Values: enum ClassiVal { Root, Classi(String), Field(FieldMeta) }.      *)
(* The derived PartialEq is record equality (variant, then payload).       *)
(***************************************************************************)
NoMeta == <<"", "", "">>

Root == [tag |-> "Root", classi |-> "", field |-> NoMeta]

Classi(s) == [tag |-> "Classi", classi |-> s, field |-> NoMeta]

Field(m) == [tag |-> "Field", classi |-> "", field |-> m]

\* impl Display for FieldMeta: "{}-{}-{}"
FieldMeta_to_string(m) == m[1] \o "-" \o m[2] \o "-" \o m[3]

\* impl Display for ClassiVal
ClassiVal_to_string(v) ==
    CASE v.tag = "Root" -> "root"
      [] v.tag = "Classi" -> "classi(" \o v.classi \o ")"
      [] v.tag = "Field" -> "field(" \o FieldMeta_to_string(v.field) \o ")"

\* the messages of ClassiError the code compares and returns
NodeExists == "the node exists"
SuperNotFound == "the super node does not found"
LevelFailed == "failed to add classification level"
NoLevels == "classification levels must be provided"
\* Ok(()) of a Result<(), ClassiError>
Ok == "ok"

(***************************************************************************)
(* ClassiNode                                                              *)
(***************************************************************************)
\* ClassiNode::new / From<&ClassiVal>
ClassiNode_new(val) == [val |-> val, subs |-> <<>>]

\* ClassiNode::find_node: Option<&ClassiNode> as <<>> (None) or <<node>> (Some)
RECURSIVE ClassiNode_find_node(_, _)
RECURSIVE find_in_subs(_, _, _)
\* find_in_subs returning whatever the first child's search gives
find_in_subs_first(subs, val, i) ==
    IF i > Len(subs) THEN <<>> ELSE ClassiNode_find_node(subs[i], val)

find_in_subs(subs, val, i) ==
    IF i > Len(subs) THEN <<>>
    ELSE LET n == ClassiNode_find_node(subs[i], val)
         IN  IF n # <<>> THEN n ELSE find_in_subs(subs, val, i + 1)

\* find_node comparing the variant of the value only, not its payload
find_node_by_variant(self, val) ==
    IF self.val.tag = val.tag THEN <<self>>
    ELSE find_in_subs(self.subs, val, 1)

ClassiNode_find_node(self, val) ==
    IF self.val = val THEN <<self>>
    ELSE find_in_subs(self.subs, val, 1)

\* a duplicate scan that looks at the first child only
child_exists_first(subs, val) == Len(subs) > 0 /\ subs[1].val = val

\* the duplicate scan of ClassiNode::add_node (lines 203-207)
child_exists(subs, val) == \E i \in 1..Len(subs) : subs[i].val = val

\* ClassiNode::add_node: returns [err, node], node being self after the call
RECURSIVE ClassiNode_add_node(_, _, _)
RECURSIVE add_in_subs(_, _, _, _)
add_in_subs(self, sup_val, val, i) ==
    IF i > Len(self.subs) THEN [err |-> SuperNotFound, node |-> self]
    ELSE LET r == ClassiNode_add_node(self.subs[i], sup_val, val)
         IN  IF r.err = Ok
             THEN [err |-> Ok, node |-> [self EXCEPT !.subs[i] = r.node]]
             ELSE IF r.err = NodeExists
             THEN [err |-> NodeExists, node |-> self]
             ELSE add_in_subs(self, sup_val, val, i + 1)

ClassiNode_add_node(self, sup_val, val) ==
    IF self.val = sup_val
    THEN IF child_exists(self.subs, val)
         THEN [err |-> NodeExists, node |-> self]
         ELSE [err |-> Ok,
               node |-> [self EXCEPT !.subs = Append(@, ClassiNode_new(val))]]
    ELSE add_in_subs(self, sup_val, val, 1)

(***************************************************************************)
(* ClassiTree                                                              *)
(***************************************************************************)
\* ClassiTree::new
ClassiTree_new == [root |-> ClassiNode_new(Root)]

\* ClassiTree::find_node
ClassiTree_find_node(self, val) == ClassiNode_find_node(self.root, val)

\* the loop over classis.windows(2) of ClassiTree::add_node, from window i on
RECURSIVE add_windows(_, _, _)
add_windows(root, classis, i) ==
    IF i >= Len(classis) THEN [err |-> Ok, node |-> root]
    ELSE LET r == ClassiNode_add_node(root, Classi(classis[i]), Classi(classis[i + 1]))
         IN  IF r.err = Ok \/ r.err = NodeExists
             THEN add_windows(r.node, classis, i + 1)
             ELSE [err |-> LevelFailed, node |-> r.node]

\* ClassiTree::add_node: returns [err, tree], tree being self after the call
ClassiTree_add_node(self, classis, field) ==
    IF Len(classis) < 1 THEN [err |-> NoLevels, tree |-> self]
    ELSE LET top == ClassiNode_add_node(self.root, Root, Classi(classis[1])).node
             w   == add_windows(top, classis, 1)
             r   == ClassiNode_add_node(w.node, Classi(classis[Len(classis)]), Field(field))
         IN  IF w.err # Ok
             THEN [err |-> w.err, tree |-> [root |-> w.node]]
             ELSE [err |-> r.err, tree |-> [root |-> r.node]]

\* ClassiTree::_collect_leave: the paths pushed to res, cur_q being the
\* nodes above `node`
RECURSIVE collect_leave(_, _)
RECURSIVE collect_subs(_, _, _)
collect_subs(subs, cur_q, i) ==
    IF i > Len(subs) THEN <<>>
    ELSE collect_leave(subs[i], cur_q) \o collect_subs(subs, cur_q, i + 1)

collect_leave(node, cur_q) ==
    IF node.subs # <<>>
    THEN collect_subs(node.subs, Append(cur_q, node), 1)
    ELSE <<Append(cur_q, node)>>

\* ClassiTree::all_leaves
all_leaves(self) == collect_subs(self.root.subs, <<>>, 1)

(***************************************************************************)
(* Diff engine and report                                                  *)
(***************************************************************************)
\* struct DiffUnit
DiffUnit(classis, field, field_exist) ==
    [classis |-> classis, field |-> field, field_exist |-> field_exist]

\* the loop `for seg in &field` of ClassiTree::diff (lines 370-386), from
\* segment i on: the units pushed, and is_found
RECURSIVE diff_segs(_, _, _, _)
diff_segs(field, other, i, t_q) ==
    IF i > Len(field) THEN [units |-> <<>>, is_found |-> TRUE]
    ELSE LET n == ClassiTree_find_node(other, field[i].val)
         IN  IF n = <<>>
             THEN [diff_segs(field, other, i + 1, t_q) EXCEPT !.is_found = FALSE]
             ELSE IF n[1].val.tag = "Classi"
             THEN diff_segs(field, other, i + 1, Append(t_q, n[1].val.classi))
             ELSE IF n[1].val.tag = "Field"
             THEN LET rest == diff_segs(field, other, i + 1, t_q)
                      unit == DiffUnit(t_q, FieldMeta_to_string(n[1].val.field), TRUE)
                  IN  [rest EXCEPT !.units = <<unit>> \o @]
             ELSE diff_segs(field, other, i + 1, t_q)

\* the classis of the unit pushed when !is_found (lines 389-395)
unmatched_classis(field) ==
    [k \in 1..Len(field) |->
        IF field[k].val.tag = "Classi" THEN field[k].val.classi ELSE ""]

\* the body of `for field in all_fields` of ClassiTree::diff: the units one
\* leaf path pushes
diff_field(field, other) ==
    LET w == diff_segs(field, other, 1, <<>>)
    IN  IF ~w.is_found
        THEN Append(w.units,
                    DiffUnit(unmatched_classis(field),
                             ClassiVal_to_string(field[Len(field)].val), FALSE))
        ELSE w.units

RECURSIVE diff_fields(_, _, _)
diff_fields(all_fields, other, i) ==
    IF i > Len(all_fields) THEN <<>>
    ELSE diff_field(all_fields[i], other) \o diff_fields(all_fields, other, i + 1)

\* ClassiTree::diff
diff(self, other) == diff_fields(all_leaves(self), other, 1)

\* `{:.2}%` of a ratio m / t times 100, in hundredths of a percent; 0.0 / 0.0
\* is the f64 NaN
Percent(m, t) ==
    IF t = 0 THEN [nan |-> TRUE, pct |-> 0]
    ELSE [nan |-> FALSE, pct |-> (2 * m * 10000 + t) \div (2 * t)]

\* the units of r (by position) counted into the group of `key`: all of them,
\* and the matched ones (the (i32, i32) entry of group_statistic)
group_units(r, key) == {k \in 1..Len(r) : r[k].classis[1] = key}

group_matched(r, key) == {k \in group_units(r, key) : r[k].field_exist}

\* claussi_report: unit.classis[0] panics on an empty classis, before anything
\* is printed; otherwise the figures printed and Ok(())
claussi_report(r) ==
    IF \E k \in 1..Len(r) : r[k].classis = <<>>
    THEN [status |-> "panic", total |-> Len(r), match_classi |-> 0,
          overall |-> [nan |-> FALSE, pct |-> 0], group_statistic |-> <<>>]
    ELSE LET total == Len(r)
             match_classi == Cardinality({k \in 1..Len(r) : r[k].field_exist})
             keys == {r[k].classis[1] : k \in 1..Len(r)}
         IN  [status |-> Ok, total |-> total, match_classi |-> match_classi,
              overall |-> Percent(match_classi, total),
              group_statistic |->
                  [key \in keys |->
                      Percent(Cardinality(group_matched(r, key)),
                              Cardinality(group_units(r, key)))]]

(***************************************************************************)
(* State                                                                   *)
(***************************************************************************)
VARIABLES
    tree,       \* a ClassiTree driven through its add_node interface
    calls,      \* the add_node calls made on tree: [classis, field, err]
    before,     \* tree as it was before the last call
    solution,   \* main: the reference tree
    answer,     \* main: the candidate tree
    added,      \* number of add_node calls made on solution and answer
    rows,       \* the rows inserted into both solution and answer
    pc,         \* main: "build", then "diffed", then "reported"
    diff_res,   \* main: solution.diff(&answer)
    report      \* main: what claussi_report(&diff_res) did

vars == <<tree, calls, before, solution, answer, added, rows, pc, diff_res, report>>

NoReport ==
    [status |-> "none", total |-> 0, match_classi |-> 0,
     overall |-> [nan |-> FALSE, pct |-> 0], group_statistic |-> <<>>]

Init ==
    /\ tree = ClassiTree_new
    /\ calls = <<>>
    /\ before = ClassiTree_new
    /\ solution = ClassiTree_new
    /\ answer = ClassiTree_new
    /\ added = 0
    /\ rows = <<>>
    /\ pc = "build"
    /\ diff_res = <<>>
    /\ report = NoReport

(***************************************************************************)
(* SpecTree: any sequence of ClassiTree::add_node calls on one tree        *)
(***************************************************************************)
AddNode(classis, field) ==
    /\ Len(calls) < MaxCalls
    /\ LET r == ClassiTree_add_node(tree, classis, field)
       IN  /\ tree' = r.tree
           /\ calls' = Append(calls, [classis |-> classis, field |-> field, err |-> r.err])
    /\ before' = tree
    /\ UNCHANGED <<solution, answer, added, rows, pc, diff_res, report>>

NextTree == \E classis \in PathsUpTo(MaxPathLen), field \in Fields : AddNode(classis, field)

SpecTree == Init /\ [][NextTree]_vars

(***************************************************************************)
(* Spec: main's pipeline, both trees built by any add_node calls, then     *)
(* diffed and reported                                                     *)
(***************************************************************************)
AddSolution(classis, field) ==
    /\ pc = "build"
    /\ added < MaxRows
    /\ solution' = ClassiTree_add_node(solution, classis, field).tree
    /\ added' = added + 1
    /\ UNCHANGED <<tree, calls, before, answer, rows, pc, diff_res, report>>

AddAnswer(classis, field) ==
    /\ pc = "build"
    /\ added < MaxRows
    /\ answer' = ClassiTree_add_node(answer, classis, field).tree
    /\ added' = added + 1
    /\ UNCHANGED <<tree, calls, before, solution, rows, pc, diff_res, report>>

Diff ==
    /\ pc = "build"
    /\ diff_res' = diff(solution, answer)
    /\ pc' = "diffed"
    /\ UNCHANGED <<tree, calls, before, solution, answer, added, rows, report>>

Report ==
    /\ pc = "diffed"
    /\ report' = claussi_report(diff_res)
    /\ pc' = "reported"
    /\ UNCHANGED <<tree, calls, before, solution, answer, added, rows, diff_res>>

Next ==
    \/ \E classis \in PathsUpTo(MaxLevels), field \in Fields : AddSolution(classis, field)
    \/ \E classis \in PathsUpTo(MaxLevels), field \in Fields : AddAnswer(classis, field)
    \/ Diff
    \/ Report

Spec == Init /\ [][Next]_vars

(***************************************************************************)
(* SpecSame: solution and answer are built from the same rows in the same  *)
(* order                                                                   *)
(***************************************************************************)
AddBoth(classis, field) ==
    /\ pc = "build"
    /\ Len(rows) < MaxSame
    /\ solution' = ClassiTree_add_node(solution, classis, field).tree
    /\ answer' = ClassiTree_add_node(answer, classis, field).tree
    /\ rows' = Append(rows, [classis |-> classis, field |-> field])
    /\ UNCHANGED <<tree, calls, before, added, pc, diff_res, report>>

NextSame ==
    \/ \E classis \in PathsUpTo(MaxLevels), field \in Fields : AddBoth(classis, field)
    \/ Diff
    \/ Report

SpecSame == Init /\ [][NextSame]_vars

(***************************************************************************)
(* Vocabulary of the properties                                            *)
(***************************************************************************)
\* every node of the subtree rooted at node
RECURSIVE NodesOf(_)
NodesOf(node) == {node} \cup UNION {NodesOf(node.subs[i]) : i \in 1..Len(node.subs)}

\* the labels and field identities stored in a tree
ValuesOf(t) == {n.val : n \in NodesOf(t.root)} \ {Root}

\* number of Field nodes of a tree
FieldCount(t) == Cardinality({n \in NodesOf(t.root) : n.val.tag = "Field"})

\* no node has two children with the same value
SiblingsDistinct(t) ==
    \A n \in NodesOf(t.root) :
        \A i, j \in 1..Len(n.subs) : i # j => n.subs[i].val # n.subs[j].val

\* the classification labels of a leaf path, in order
RECURSIVE ClassLabels(_)
ClassLabels(path) ==
    IF path = <<>> THEN <<>>
    ELSE IF path[1].val.tag = "Classi"
    THEN <<path[1].val.classi>> \o ClassLabels(Tail(path))
    ELSE ClassLabels(Tail(path))

\* some segment of the leaf path has a value the tree t does not hold
HasMiss(path, t) == \E k \in 1..Len(path) : path[k].val \notin ValuesOf(t)

Diffed == pc \in {"diffed", "reported"}

LastCall == calls[Len(calls)]

(***************************************************************************)
(* Properties                                                              *)
(***************************************************************************)
\* C1: the number of DiffUnits returned by solution.diff(answer) equals the
\* number of leaves of the reference tree, whatever the candidate contains.
Cex_C1 == Diffed => Len(diff_res) = Len(all_leaves(solution))

\* C2: calling add_node a second time with the identical non-empty path and
\* the identical leaf returns "the node exists" and leaves the whole tree as
\* it was before that second call.
Cex_C2 ==
    (/\ Len(calls) >= 2
     /\ LastCall.classis # <<>>
     /\ LastCall.classis = calls[Len(calls) - 1].classis
     /\ LastCall.field = calls[Len(calls) - 1].field)
    => (LastCall.err = NodeExists /\ tree = before)

\* rows of SpecSame as the claim wants them: at least one, every path
\* non-empty, field identities pairwise distinct
WellFormedRows ==
    /\ Len(rows) > 0
    /\ \A i \in 1..Len(rows) : rows[i].classis # <<>>
    /\ \A i, j \in 1..Len(rows) : i # j => rows[i].field # rows[j].field

\* C3: when reference and candidate are built from the same well-formed rows
\* in the same order, diff returns at least one unit, every unit is matched,
\* and the report succeeds with matched = total > 0 and 100.00% overall.
Thm_C3 ==
    WellFormedRows =>
        /\ Diffed =>
              /\ Len(diff_res) > 0
              /\ \A k \in 1..Len(diff_res) : diff_res[k].field_exist
        /\ pc = "reported" =>
              /\ report.status = Ok
              /\ report.total > 0
              /\ report.match_classi = report.total
              /\ report.overall = [nan |-> FALSE, pct |-> 10000]

\* two rows reusing the labels A and B under different parents, reported
Witness_C3 ==
    /\ pc = "reported"
    /\ WellFormedRows
    /\ Len(rows) = 2
    /\ rows[1].classis = <<"A", "B">>
    /\ rows[2].classis = <<"B", "A">>
    /\ report.match_classi = 2

\* the reference tree is non-empty and shares no label and no field identity
\* with the candidate tree
NothingShared ==
    /\ solution.root.subs # <<>>
    /\ ValuesOf(solution) \cap ValuesOf(answer) = {}

\* C4: when nothing of the non-empty reference tree occurs in the candidate,
\* diff returns at least one unit, every unit is unmatched, and the report
\* succeeds with matched = 0 and 0.00% overall.
Thm_C4 ==
    NothingShared =>
        /\ Diffed =>
              /\ Len(diff_res) > 0
              /\ \A k \in 1..Len(diff_res) : ~diff_res[k].field_exist
        /\ pc = "reported" =>
              /\ report.status = Ok
              /\ report.match_classi = 0
              /\ report.overall = [nan |-> FALSE, pct |-> 0]

\* a non-empty candidate with nothing of the reference in it, reported
Witness_C4 ==
    /\ pc = "reported"
    /\ NothingShared
    /\ FieldCount(solution) > 0
    /\ FieldCount(answer) > 0
    /\ report.total > 0

\* C5: for every reference leaf path with a segment absent from the
\* candidate, diff emits exactly one unmatched unit whose classis is exactly
\* the path's classification labels, with no entry for the leaf itself.
Cex_C5 ==
    Diffed =>
        \A i \in 1..Len(all_leaves(solution)) :
            LET path == all_leaves(solution)[i]
            IN  HasMiss(path, answer) =>
                    Cardinality({k \in 1..Len(diff_res) :
                        /\ ~diff_res[k].field_exist
                        /\ diff_res[k].field = ClassiVal_to_string(path[Len(path)].val)
                        /\ diff_res[k].classis = ClassLabels(path)}) = 1

\* C6: claussi_report given zero units returns the EmptyScoreSet error and
\* reports no accuracy figure.
Cex_C6 == (pc = "reported" /\ Len(diff_res) = 0) => report.status = "EmptyScoreSet"

\* the calls made on tree all succeeded and carried pairwise distinct fields
CleanCalls ==
    /\ \A i \in 1..Len(calls) : calls[i].err = Ok
    /\ \A i, j \in 1..Len(calls) : i # j => calls[i].field # calls[j].field

\* C7: in a tree built by successful inserts of rows with distinct fields,
\* every path of all_leaves consists of Classification nodes up to its last
\* element and ends in a Field node, and there are as many paths as rows.
Cex_C7 ==
    CleanCalls =>
        /\ \A i \in 1..Len(all_leaves(tree)) :
              LET path == all_leaves(tree)[i]
              IN  /\ Len(path) >= 2
                  /\ \A k \in 1..(Len(path) - 1) : path[k].val.tag = "Classi"
                  /\ path[Len(path)].val.tag = "Field"
        /\ Len(all_leaves(tree)) = Len(calls)

\* C8: after any sequence of add_node calls, successful or failing, the
\* direct children of every node have pairwise distinct values.
Thm_C8 == SiblingsDistinct(solution) /\ SiblingsDistinct(answer)

\* all calls made, one of them failed (a successful call adds one Field
\* node), and some node of the reference tree has several children
Witness_C8 ==
    /\ added = MaxRows
    /\ FieldCount(solution) + FieldCount(answer) < added
    /\ \E n \in NodesOf(solution.root) : Len(n.subs) >= 2

\* C9: after a successful add_node(path, leaf), all_leaves contains a path
\* whose labels are exactly `path` and whose last node is Field(leaf).
Cex_C9 ==
    (Len(calls) > 0 /\ LastCall.err = Ok) =>
        \E i \in 1..Len(all_leaves(tree)) :
            LET path == all_leaves(tree)[i]
                n    == Len(LastCall.classis)
            IN  /\ Len(path) = n + 1
                /\ \A k \in 1..n : path[k].val = Classi(LastCall.classis[k])
                /\ path[n + 1].val = Field(LastCall.field)

\* C10: every DiffUnit returned by diff has a non-empty classis, so
\* claussi_report never indexes an empty classis.
Cex_C10 ==
    /\ Diffed => \A k \in 1..Len(diff_res) : diff_res[k].classis # <<>>
    /\ pc = "reported" => report.status # "panic"

====
